---- MODULE Spec2Model ----
(***************************************************************************)
(* A model of the sophon-search backend: the inverted index store          *)
(* (indexer.py, models.py), its JSON persistence, the search orchestrator  *)
(* with its query cache (searcher.py) and the indexing paths of the API    *)
(* server (main.py).                                                       *)
(*                                                                         *)
(* Python dicts keep insertion order, so a dict is a record                *)
(* [order, at]: the keys in insertion order and the key -> value map.      *)
(* Floats that are quotients of counters (avg_doc_length) are reduced      *)
(* fractions [num, den]. Scores and IDF values are fixed-point numbers in  *)
(* units of 1/Scale; math.log is its value table Ln on the integers.       *)
(* Wall-clock fields (created_at, last_updated, indexed_at, time_taken_ms) *)
(* are left out; search_time_ms is an input of each search.                *)
(***************************************************************************)
EXTENDS Integers, Sequences, FiniteSets, TLC

VARIABLES
    index,              \* InvertedIndex.index: term -> IndexEntry
    documents,          \* InvertedIndex.documents: doc_id -> Document
    metadata,           \* InvertedIndex.metadata: IndexMetadata
    indexing_stats,     \* InvertedIndex.indexing_stats
    disk,               \* the file index.json: NoFile or the saved JSON value
    query_cache,        \* SearchEngine.query_cache: cache key -> SearchResponse
    pending_documents,  \* IncrementalIndexer.pending_documents
    last_call,          \* the last completed call: operation, argument, result
    pc,                 \* per thread: position inside add_document
    local,              \* per thread: the locals of the running add_document
    saved,              \* the store as the last successful save left it
    partial_loads       \* how many loads have failed past the metadata section

vars == <<index, documents, metadata, indexing_stats, disk, query_cache,
          pending_documents, last_call, pc, local, saved,
          partial_loads>>

storeVars == <<index, documents, metadata, indexing_stats>>

(***************************************************************************)
(* Bounds of the model.                                                    *)
(***************************************************************************)
MaxDocs == 2
MaxBatch == 2
\* documents are added while metadata.total_tokens is below this cap
MaxTokens == 4
\* at most this many loads of a behaviour fail past the metadata section
MaxPartialLoads == 1

\* Optional values: None is the empty list, a value v the list <<v>>
None == <<>>
Some(v) == <<v>>
IsNone(o) == Len(o) = 0
Val(o) == o[1]

(***************************************************************************)
(* Ordered dicts.                                                          *)
(***************************************************************************)
EmptyDict == [order |-> <<>>, at |-> [k \in {} |-> 0]]

Keys(d) == DOMAIN d.at

Has(d, k) == k \in DOMAIN d.at

\* dict.get(k)
Get(d, k) == IF k \in DOMAIN d.at THEN Some(d.at[k]) ELSE None

Put(d, k, v) ==
    [order |-> IF k \in DOMAIN d.at THEN d.order ELSE Append(d.order, k),
     at |-> [x \in (DOMAIN d.at) \cup {k} |-> IF x = k THEN v ELSE d.at[x]]]

Range(s) == {s[i] : i \in DOMAIN s}

\* dict.items() as a list of <<key, value>> pairs, in insertion order
Items(d) == [i \in DOMAIN d.order |-> <<d.order[i], d.at[d.order[i]]>>]

RECURSIVE FromItems(_)
\* dict built by inserting the pairs in order (a later pair overrides)
FromItems(ps) ==
    IF ps = <<>> THEN EmptyDict
    ELSE LET n == Len(ps)
         IN  Put(FromItems(SubSeq(ps, 1, n - 1)), ps[n][1], ps[n][2])

RECURSIVE Gcd(_, _)
Gcd(a, b) == IF b = 0 THEN a ELSE Gcd(b, a % b)

\* the float a / b (b > 0) as a reduced fraction
Ratio(a, b) ==
    LET g == Gcd(a, b)
    IN  IF a = 0 THEN [num |-> 0, den |-> 1] ELSE [num |-> a \div g, den |-> b \div g]

(***************************************************************************)
(* Text. A text is a sequence of chunks separated by white space; a chunk  *)
(* is a run of alphanumeric characters or a run of punctuation.            *)
(***************************************************************************)
Chunks == {"py", "Py", "go", "the", "x", "!!", "zz", "gopher"}

Alnum == Chunks \ {"!!"}

Lower(w) == IF w = "Py" THEN "py" ELSE w

WordLen(w) == IF w = "x" THEN 1 ELSE IF w = "the" THEN 3 ELSE IF w = "gopher" THEN 6 ELSE 2

MIN_WORD_LENGTH == 2
MAX_WORD_LENGTH == 30
STOP_WORDS == {"the"}

\* the elements of the list that are in `keep`, in their order
SelectSeqBy(s, keep) == SelectSeq(s, LAMBDA x : x \in keep)

\* TextPreprocessor.tokenize: lower case, token_pattern.findall, length filter
tokenize(text) ==
    LET lowered == [i \in DOMAIN text |-> Lower(text[i])]
        found == SelectSeqBy(lowered, {Lower(w) : w \in Alnum})
    IN  SelectSeqBy(found, {w \in Range(found) :
                               MIN_WORD_LENGTH <= WordLen(w) /\ WordLen(w) <= MAX_WORD_LENGTH})

remove_stopwords(tokens) == SelectSeqBy(tokens, Range(tokens) \ STOP_WORDS)

preprocess(text) == remove_stopwords(tokenize(text))

(***************************************************************************)
(* models.py                                                               *)
(***************************************************************************)
NewIndexEntry(term) ==
    [word |-> term, postings |-> EmptyDict, doc_frequency |-> 0, idf_score |-> 0]

\* a mutant of add_posting: doc_frequency counts calls, not documents
add_posting_counting_calls(entry, doc_id, position, frequency) ==
    LET old == IF Has(entry.postings, doc_id) THEN entry.postings.at[doc_id]
               ELSE [frequency |-> 0, positions |-> <<>>]
        new == [frequency |-> old.frequency + frequency,
                positions |-> Append(old.positions, position)]
    IN  [entry EXCEPT !.postings = Put(entry.postings, doc_id, new),
                      !.doc_frequency = entry.doc_frequency + 1]

\* a mutant of add_posting: the frequency is set, not added to
add_posting_setting_frequency(entry, doc_id, position, frequency) ==
    LET old == IF Has(entry.postings, doc_id) THEN entry.postings.at[doc_id]
               ELSE [frequency |-> 0, positions |-> <<>>]
        new == [frequency |-> frequency,
                positions |-> Append(old.positions, position)]
        postings == Put(entry.postings, doc_id, new)
    IN  [entry EXCEPT !.postings = postings,
                      !.doc_frequency = Cardinality(Keys(postings))]

\* IndexEntry.add_posting
add_posting(entry, doc_id, position, frequency) ==
    LET old == IF Has(entry.postings, doc_id) THEN entry.postings.at[doc_id]
               ELSE [frequency |-> 0, positions |-> <<>>]
        new == [frequency |-> old.frequency + frequency,
                positions |-> Append(old.positions, position)]
        postings == Put(entry.postings, doc_id, new)
    IN  [entry EXCEPT !.postings = postings,
                      !.doc_frequency = Cardinality(Keys(postings))]

\* Document(doc_id=..., content=...) as the crawler builds it
NewDocument(doc_id, content) ==
    [doc_id |-> doc_id, content |-> content, tokens |-> <<>>,
     word_count |-> 0, unique_words |-> 0]

\* Document.update_stats
update_stats(doc) ==
    [doc EXCEPT !.word_count = Len(doc.tokens),
                !.unique_words = Cardinality(Range(doc.tokens))]

\* IndexMetadata()
NewIndexMetadata ==
    [total_documents |-> 0, total_terms |-> 0, total_tokens |-> 0,
     avg_doc_length |-> Ratio(0, 1), document_ids |-> <<>>]

\* a mutant of metadata_add_document: the average is not recomputed
metadata_add_document_stale_avg(md, doc) ==
    [md EXCEPT !.total_documents = md.total_documents + 1,
               !.total_tokens = md.total_tokens + doc.word_count,
               !.document_ids = Append(md.document_ids, doc.doc_id)]

\* IndexMetadata.add_document
metadata_add_document(md, doc) ==
    LET td == md.total_documents + 1
        tt == md.total_tokens + doc.word_count
    IN  [md EXCEPT !.total_documents = td,
                   !.total_tokens = tt,
                   !.document_ids = Append(md.document_ids, doc.doc_id),
                   !.avg_doc_length = Ratio(tt, td)]

NewIndexingStats == [terms_indexed |-> 0, postings_created |-> 0]

(***************************************************************************)
(* Fixed-point numbers: a value v stands for v / Scale.                    *)
(***************************************************************************)
Scale == 10 ^ 5

\* math.log on the integers 1..110, in units of 1/Scale
Ln ==
    <<0, 69315, 109861, 138629, 160944, 179176, 194591, 207944, 219722, 230259,
      239790, 248491, 256495, 263906, 270805, 277259, 283321, 289037, 294444, 299573,
      304452, 309104, 313549, 317805, 321888, 325810, 329584, 333220, 336730, 340120,
      343399, 346574, 349651, 352636, 355535, 358352, 361092, 363759, 366356, 368888,
      371357, 373767, 376120, 378419, 380666, 382864, 385015, 387120, 389182, 391202,
      393183, 395124, 397029, 398898, 400733, 402535, 404305, 406044, 407754, 409434,
      411087, 412713, 414313, 415888, 417439, 418965, 420469, 421951, 423411, 424850,
      426268, 427667, 429046, 430407, 431749, 433073, 434381, 435671, 436945, 438203,
      439445, 440672, 441884, 443082, 444265, 445435, 446591, 447734, 448864, 449981,
      451086, 452179, 453260, 454329, 455388, 456435, 457471, 458497, 459512, 460517,
      461512, 462497, 463473, 464439, 465396, 466344, 467283, 468213, 469135, 470048>>

\* math.log(p / q) for integers p, q >= 1
LogRatio(p, q) == Ln[p] - Ln[q]

(***************************************************************************)
(* indexer.py: InvertedIndex. A store is the record of the four fields.    *)
(***************************************************************************)
NewStore ==
    [index |-> EmptyDict, documents |-> EmptyDict,
     metadata |-> NewIndexMetadata, indexing_stats |-> NewIndexingStats]

Store ==
    [index |-> index, documents |-> documents,
     metadata |-> metadata, indexing_stats |-> indexing_stats]

\* a mutant of calculate_idf: log(N / df), without the smoothing
calculate_idf_unsmoothed(st, term) ==
    IF ~Has(st.index, term) THEN 0
    ELSE LogRatio(st.metadata.total_documents, st.index.at[term].doc_frequency)

\* InvertedIndex._calculate_idf: log((N + 1) / (df + 0.5))
calculate_idf(st, term) ==
    IF ~Has(st.index, term) THEN 0
    ELSE LET df == st.index.at[term].doc_frequency
             N == st.metadata.total_documents
         IN  LogRatio(2 * N + 2, 2 * df + 1)

\* a mutant of update_idf_scores: the pass is left out
update_idf_scores_skipped(st) == st

\* InvertedIndex._update_idf_scores
update_idf_scores(st) ==
    [st EXCEPT !.index.at =
        [t \in DOMAIN st.index.at |->
            [st.index.at[t] EXCEPT !.idf_score = calculate_idf(st, t)]]]

RECURSIVE TermPositions(_, _)
\* add_document, lines 249-252: term -> positions over the first n tokens
TermPositions(tokens, n) ==
    IF n = 0 THEN EmptyDict
    ELSE LET d == TermPositions(tokens, n - 1)
             t == tokens[n]
             old == IF Has(d, t) THEN d.at[t] ELSE <<>>
         IN  Put(d, t, Append(old, n - 1))

RECURSIVE AddPostings(_, _, _, _)
\* add_document, lines 261-262: add_posting for the first n positions
AddPostings(entry, doc_id, positions, n) ==
    IF n = 0 THEN entry
    ELSE add_posting(AddPostings(entry, doc_id, positions, n - 1),
                     doc_id, positions[n], 1)

\* add_document, lines 256-262: one term of the document
IndexTerm(idx, doc_id, term, positions) ==
    LET entry == IF Has(idx, term) THEN idx.at[term] ELSE NewIndexEntry(term)
    IN  Put(idx, term, AddPostings(entry, doc_id, positions, Len(positions)))

RECURSIVE IndexTerms(_, _, _, _)
\* add_document, lines 255-264: the first n terms of term_positions
IndexTerms(idx, doc_id, tp, n) ==
    IF n = 0 THEN idx
    ELSE LET t == tp.order[n]
         IN  IndexTerm(IndexTerms(idx, doc_id, tp, n - 1), doc_id, t, tp.at[t])

\* add_document past the duplicate check, lines 242-271
add_document_new(st, doc) ==
    LET tokens == preprocess(doc.content)
        d == update_stats([doc EXCEPT !.tokens = tokens])
        tp == TermPositions(tokens, Len(tokens))
        n == Len(tp.order)
    IN  [index |-> IndexTerms(st.index, d.doc_id, tp, n),
         documents |-> Put(st.documents, d.doc_id, d),
         metadata |-> metadata_add_document(st.metadata, d),
         indexing_stats |->
            [terms_indexed |-> st.indexing_stats.terms_indexed + n,
             postings_created |-> st.indexing_stats.postings_created + n]]

\* a mutant of add_document: no duplicate-id check
add_document_unchecked(st, doc) == add_document_new(st, doc)

\* InvertedIndex.add_document
add_document(st, doc) ==
    IF Has(st.documents, doc.doc_id) THEN st ELSE add_document_new(st, doc)

RECURSIVE AddAll(_, _, _)
\* add_documents, lines 287-289: add_document for the first n documents
AddAll(st, docs, n) ==
    IF n = 0 THEN st ELSE add_document(AddAll(st, docs, n - 1), docs[n])

\* InvertedIndex.add_documents
add_documents(st, docs) == update_idf_scores(AddAll(st, docs, Len(docs)))

\* InvertedIndex.add_documents when indexing the bad-th document of the batch
\* raises at its preprocessing, line 243 (bad = 0: no document is bad). The
\* loop of lines 287-289 has no handler: the exception leaves add_documents.
\* A document whose doc_id is stored returns at line 240, before line 243.
add_documents_try(st, docs, bad) ==
    LET before == AddAll(st, docs, IF bad = 0 THEN 0 ELSE bad - 1)
    IN  IF bad = 0 \/ Has(before.documents, docs[bad].doc_id)
        THEN [store |-> add_documents(st, docs), raised |-> FALSE]
        ELSE [store |-> before, raised |-> TRUE]

\* a mutant of clear: the metadata is left as it was
clear_keeping_metadata(st) == [NewStore EXCEPT !.metadata = st.metadata]

\* InvertedIndex.clear
clear(st) == NewStore

\* IncrementalIndexer.stage_document
stage_document(pending, doc) == Append(pending, doc)

\* a mutant of commit: the staged documents are added last first
commit_last_first(st, pending) ==
    update_idf_scores(
        AddAll(st, [i \in DOMAIN pending |-> pending[Len(pending) + 1 - i]], Len(pending)))

\* IncrementalIndexer.commit: the store afterwards (the staging list is
\* cleared and its length returned)
commit(st, pending) == update_idf_scores(AddAll(st, pending, Len(pending)))

(***************************************************************************)
(* Persistence. model_dump and json.dump write a dict as the list of its   *)
(* items; json.load and the model constructors rebuild the dicts.          *)
(***************************************************************************)
entry_dump(entry) ==
    [word |-> entry.word, postings |-> Items(entry.postings),
     doc_frequency |-> entry.doc_frequency, idf_score |-> entry.idf_score]

\* a mutant of entry_load: doc_frequency is left at the field's default
entry_load_default_df(e) ==
    [word |-> e.word, postings |-> FromItems(e.postings),
     doc_frequency |-> 0, idf_score |-> e.idf_score]

entry_load(e) ==
    [word |-> e.word, postings |-> FromItems(e.postings),
     doc_frequency |-> e.doc_frequency, idf_score |-> e.idf_score]

\* save, lines 396-399: the metadata refresh before serializing
save_metadata(st) ==
    [st.metadata EXCEPT !.total_documents = Cardinality(Keys(st.documents)),
                        !.total_terms = Cardinality(Keys(st.index)),
                        !.document_ids = st.documents.order]

\* save, lines 403-412: the value written to the file
save_data(st) ==
    [metadata |-> st.metadata,
     index |-> [i \in DOMAIN st.index.order |->
                  <<st.index.order[i], entry_dump(st.index.at[st.index.order[i]])>>],
     documents |-> Items(st.documents),
     stats |-> st.indexing_stats]

\* the file index.json: absent, not JSON, or the JSON value written by save
NoFile == [state |-> "missing", data |-> <<>>]
Garbage == [state |-> "garbage", data |-> <<>>]
JsonFile(data) == [state |-> "json", data |-> data]

\* InvertedIndex.save: io is the outcome of the file system calls.
\* Returns the store, the file and the result.
save(st, file, io) ==
    LET st2 == [st EXCEPT !.metadata = save_metadata(st)]
    IN  CASE io = "makedirs_fails" -> [store |-> st, disk |-> file, ret |-> FALSE]
          [] io = "open_fails" -> [store |-> st2, disk |-> file, ret |-> FALSE]
          [] io = "write_fails" -> [store |-> st2, disk |-> Garbage, ret |-> FALSE]
          [] OTHER -> [store |-> st2, disk |-> JsonFile(save_data(st2)), ret |-> TRUE]

\* load, lines 453-455: the entries read before the loop ends or fails
load_index_entries(items, n) ==
    FromItems([i \in 1..n |-> <<items[i][1], entry_load(items[i][2])>>])

\* load, lines 458-460
load_document_entries(items, n) == FromItems(SubSeq(items, 1, n))

NoDamage == [kind |-> "none", at |-> 0]

\* a loop over n items fails at its start or after 0..n-1 good items
FailPoints(n) == 0..(IF n = 0 THEN 0 ELSE n - 1)

\* the ways the file can be found malformed: not JSON; a bad or missing
\* metadata section; a missing index section or a bad entry after `at` good
\* ones; a missing documents section or a bad document after `at` good ones
Damages(file) ==
    IF file.state = "missing" THEN {[kind |-> "missing", at |-> 0]}
    ELSE IF file.state = "garbage" THEN {[kind |-> "json", at |-> 0]}
    ELSE {NoDamage, [kind |-> "json", at |-> 0], [kind |-> "metadata", at |-> 0]}
         \cup {[kind |-> "index", at |-> k] : k \in FailPoints(Len(file.data.index))}
         \cup {[kind |-> "documents", at |-> k] : k \in FailPoints(Len(file.data.documents))}

\* InvertedIndex.load of a file found with `damage`. Returns the store and
\* the result.
load(st, file, damage) ==
    LET data == file.data
    IN  CASE damage.kind \in {"missing", "json", "metadata"} ->
                [store |-> st, ret |-> FALSE]
          [] damage.kind = "index" ->
                [store |-> [st EXCEPT !.metadata = data.metadata,
                                      !.index = load_index_entries(data.index, damage.at)],
                 ret |-> FALSE]
          [] damage.kind = "documents" ->
                [store |-> [st EXCEPT !.metadata = data.metadata,
                                      !.index = load_index_entries(data.index, Len(data.index)),
                                      !.documents = load_document_entries(data.documents, damage.at)],
                 ret |-> FALSE]
          [] OTHER ->
                [store |-> [index |-> load_index_entries(data.index, Len(data.index)),
                            documents |-> load_document_entries(data.documents,
                                                                Len(data.documents)),
                            metadata |-> data.metadata,
                            indexing_stats |-> data.stats],
                 ret |-> TRUE]

(***************************************************************************)
(* indexer.py: the lookups.                                                *)
(***************************************************************************)
\* a mutant of after_get: a missing key is inserted, as a defaultdict does
after_get_defaulting(d, k) == IF Has(d, k) THEN d ELSE Put(d, k, NewIndexEntry(k))

\* self.index.get(k): the dict after the lookup. The index is a plain dict
\* (indexer.py, line 156), so a lookup leaves it as it is.
after_get(d, k) == d

\* InvertedIndex.get_term_postings (CASE_SENSITIVE is False)
get_term_postings(st, term) == Get(st.index, Lower(term))

\* InvertedIndex.get_document
get_document(st, doc_id) == Get(st.documents, doc_id)

\* InvertedIndex.get_term_frequency
get_term_frequency(st, term, doc_id) ==
    LET entry == get_term_postings(st, term)
    IN  IF IsNone(entry) \/ ~Has(Val(entry).postings, doc_id) THEN 0
        ELSE Val(entry).postings.at[doc_id].frequency

(***************************************************************************)
(* searcher.py: BM25Scorer. k1 and b are in hundredths.                    *)
(***************************************************************************)
BM25_K1 == 150
BM25_B == 75

\* BM25Scorer.calculate_idf: log(1 + (N - n + 0.5) / (n + 0.5))
bm25_calculate_idf(st, term) ==
    LET entry == get_term_postings(st, term)
    IN  IF IsNone(entry) THEN 0
        ELSE LET N == st.metadata.total_documents
                 n == Val(entry).doc_frequency
             IN  LogRatio((2 * n + 1) + (2 * N - 2 * n + 1), 2 * n + 1)

\* BM25Scorer.score_term, lines 125-134, for a posting of frequency f and a
\* stored document: idf * (f * (k1 + 1)) / (f + k1 * (1 - b + b * (dl / avgdl)))
bm25_formula(st, term, f, doc, k1, b) ==
    LET dl == IF doc.word_count = 0 THEN 1 ELSE doc.word_count
        avg == st.metadata.avg_doc_length
        avgdl == IF avg.num = 0 THEN [num |-> 1, den |-> 1] ELSE avg
        P == 100 * f * (k1 + 100) * avgdl.num
        Q == 10000 * f * avgdl.num
             + k1 * ((100 - b) * avgdl.num + b * dl * avgdl.den)
        g == Gcd(P, Q)
    IN  (bm25_calculate_idf(st, term) * (P \div g)) \div (Q \div g)

\* a mutant of score_term: a document outside the postings scores the idf
score_term_absent_as_idf(st, term, doc_id, k1, b) ==
    LET entry == get_term_postings(st, term)
        doc == get_document(st, doc_id)
    IN  IF IsNone(entry) THEN 0
        ELSE IF ~Has(Val(entry).postings, doc_id) THEN bm25_calculate_idf(st, term)
        ELSE IF IsNone(doc) THEN 0
        ELSE bm25_formula(st, term, Val(entry).postings.at[doc_id].frequency,
                          Val(doc), k1, b)

\* BM25Scorer.score_term
score_term(st, term, doc_id, k1, b) ==
    LET entry == get_term_postings(st, term)
        doc == get_document(st, doc_id)
    IN  IF IsNone(entry) \/ ~Has(Val(entry).postings, doc_id) THEN 0
        ELSE IF IsNone(doc) THEN 0
        ELSE bm25_formula(st, term, Val(entry).postings.at[doc_id].frequency,
                          Val(doc), k1, b)

\* BM25Scorer.__init__: `k1 or BM25_K1`, `b or BM25_B`; an argument is None
\* or a number in hundredths, and `or` takes its right side for None and for 0
NewBM25Scorer(k1, b) ==
    [k1 |-> IF IsNone(k1) \/ Val(k1) = 0 THEN BM25_K1 ELSE Val(k1),
     b |-> IF IsNone(b) \/ Val(b) = 0 THEN BM25_B ELSE Val(b)]

(***************************************************************************)
(* searcher.py: BooleanRetriever.                                          *)
(***************************************************************************)
\* BooleanRetriever._get_doc_ids
get_doc_ids(st, term) ==
    LET entry == get_term_postings(st, term)
    IN  IF IsNone(entry) THEN {} ELSE Keys(Val(entry).postings)

RECURSIVE AndFrom(_, _, _, _)
\* and_operation, lines 223-229: the loop from the i-th term on
AndFrom(st, terms, i, result) ==
    IF i > Len(terms) THEN result
    ELSE LET r == result \cap get_doc_ids(st, terms[i])
         IN  IF r = {} THEN {} ELSE AndFrom(st, terms, i + 1, r)

\* a mutant of and_operation: the intersection starts from every document
and_operation_from_all(st, terms) ==
    IF terms = <<>> THEN {} ELSE AndFrom(st, terms, 2, Keys(st.documents))

\* BooleanRetriever.and_operation
and_operation(st, terms) ==
    IF terms = <<>> THEN {} ELSE AndFrom(st, terms, 2, get_doc_ids(st, terms[1]))

\* BooleanRetriever.or_operation
or_operation(st, terms) == UNION {get_doc_ids(st, terms[i]) : i \in DOMAIN terms}

(***************************************************************************)
(* searcher.py: SearchEngine. `fault` names the internal step that raises  *)
(* during a call (NoFault: none); every handler is modelled as written.    *)
(***************************************************************************)
NoFault == [step |-> "none", doc |-> ""]

\* the outcome of a block of code: a value, or an exception
Ok(v) == [exc |-> FALSE, val |-> v]
Raise == [exc |-> TRUE, val |-> <<>>]

\* try: return <block>  except Exception: return default
Catch(outcome, default) == IF outcome.exc THEN default ELSE outcome.val

\* SearchEngine._tokenize_query
tokenize_query(text, fault) ==
    Catch(IF fault.step = "tokenize" THEN Raise ELSE Ok(preprocess(text)), <<>>)

\* SearchEngine._retrieve_candidates
retrieve_candidates(st, query_terms, fault) ==
    Catch(IF fault.step = "retrieve" THEN Raise
          ELSE IF query_terms = <<>> THEN Ok({})
          ELSE Ok(and_operation(st, query_terms) \cup or_operation(st, query_terms)),
          {})

RECURSIVE SumOver(_, _)
\* sum(f(term) for term in terms): vals is the list of the summands
SumOver(vals, n) == IF n = 0 THEN 0 ELSE SumOver(vals, n - 1) + vals[n]

\* _rank_documents, lines 421-424
bm25_score(st, query_terms, doc_id) ==
    SumOver([i \in DOMAIN query_terms |->
                score_term(st, query_terms[i], doc_id, BM25_K1, BM25_B)],
            Len(query_terms))

\* TFIDFScorer.score: the dot product of lines 185-188 runs over the list
\* query_terms; the document vector has the terms of doc.tokens
tfidf_score(st, query_terms, doc_id) ==
    LET found == get_document(st, doc_id)
        doc == Val(found)
        doc_vector(term) ==
            get_term_frequency(st, term, doc_id)
            * (IF Has(st.index, term) THEN st.index.at[term].idf_score ELSE 0)
    IN  IF IsNone(found) THEN 0
        ELSE IF doc.tokens = <<>> THEN 0
        ELSE SumOver([i \in DOMAIN query_terms |->
                         IF query_terms[i] \in Range(doc.tokens)
                         THEN 1 * doc_vector(query_terms[i]) ELSE 0],
                     Len(query_terms))

MIN_RELEVANCE_SCORE == Scale \div 100

\* _rank_documents, lines 419-427: the score of each candidate in turn, or
\* the exception its scoring raises
ScoreEach(st, cands, query_terms, fault) ==
    [i \in DOMAIN cands |->
        [doc_id |-> cands[i],
         score |-> IF fault.step = "score" /\ fault.doc = cands[i] THEN Raise
                   ELSE Ok(bm25_score(st, query_terms, cands[i]))]]

\* a mutant of Scored: no minimum relevance check
Scored_unfiltered(st, cands, query_terms, fault) ==
    LET kept == SelectSeq(ScoreEach(st, cands, query_terms, fault),
                          LAMBDA x : ~x.score.exc)
    IN  [i \in DOMAIN kept |-> [doc_id |-> kept[i].doc_id, score |-> kept[i].score.val]]

\* _rank_documents, lines 417-434: the scores list; a candidate whose
\* scoring raises, or scores below the minimum, is left out
Scored(st, cands, query_terms, fault) ==
    LET kept == SelectSeq(ScoreEach(st, cands, query_terms, fault),
                          LAMBDA x : ~x.score.exc /\ x.score.val >= MIN_RELEVANCE_SCORE)
    IN  [i \in DOMAIN kept |-> [doc_id |-> kept[i].doc_id, score |-> kept[i].score.val]]

\* a mutant of SortDesc: the list is left in the order of the candidates
SortDesc_unsorted(scores) == scores

\* list.sort(key=score, reverse=True), stable: an element goes after the
\* higher scores and after the equal scores that came before it
SortDesc(scores) ==
    LET place(i) ==
            1 + Cardinality({j \in DOMAIN scores :
                                \/ scores[j].score > scores[i].score
                                \/ scores[j].score = scores[i].score /\ j < i})
    IN  [p \in DOMAIN scores |-> scores[CHOOSE i \in DOMAIN scores : place(i) = p]]

\* SearchEngine._rank_documents; cands is the candidate set as iterated
rank_documents(st, cands, query_terms, fault) ==
    Catch(IF fault.step = "rank" THEN Raise
          ELSE Ok(SortDesc(Scored(st, cands, query_terms, fault))),
          <<>>)

\* a mutant of create_search_result: the result is built from the ranking
\* alone, without looking the document up
create_search_result_unchecked(st, doc_id, score, query_terms, fault) ==
    Some([doc_id |-> doc_id, score |-> score, matched_terms |-> <<>>,
          content |-> <<>>, tf_score |-> 0, idf_score |-> 0])

\* SearchEngine._create_search_result: the SearchResult, or None
create_search_result(st, doc_id, score, query_terms, fault) ==
    LET found == get_document(st, doc_id)
        doc == Val(found)
    IN  Catch(
        IF fault.step = "materialize" /\ fault.doc = doc_id THEN Raise
        ELSE IF IsNone(found) THEN Ok(None)
        ELSE Ok(Some(
             [doc_id |-> doc_id,
              score |-> score,
              matched_terms |->
                  IF doc.tokens = <<>> THEN <<>>
                  ELSE SelectSeqBy(query_terms,
                                   {Lower(doc.tokens[i]) : i \in DOMAIN doc.tokens}),
              content |-> doc.content,
              tf_score |->
                  SumOver([i \in DOMAIN query_terms |->
                              get_term_frequency(st, query_terms[i], doc_id)],
                          Len(query_terms)),
              idf_score |->
                  SumOver([i \in DOMAIN query_terms |->
                              IF Has(st.index, query_terms[i])
                              THEN st.index.at[query_terms[i]].idf_score ELSE 0],
                          Len(query_terms))])),
        None)

RECURSIVE Materialize(_, _, _, _)
\* search, lines 619-623
Materialize(st, page_results, query_terms, fault) ==
    IF page_results = <<>> THEN <<>>
    ELSE LET n == Len(page_results)
             before == Materialize(st, SubSeq(page_results, 1, n - 1), query_terms, fault)
             r == create_search_result(st, page_results[n].doc_id,
                                       page_results[n].score, query_terms, fault)
         IN  IF IsNone(r) THEN before ELSE Append(before, Val(r))

\* term.startswith(token[:3]) over the vocabulary: "gopher" is the one word
\* longer than 3 characters, and "go" the one word that another starts with
StartsWithPrefix3(term, token) ==
    LET prefix == IF token = "gopher" THEN "gop" ELSE token
    IN  \/ term = prefix
        \/ term = "gopher" /\ prefix \in {"go", "gop"}

RECURSIVE SuggestInner(_, _, _, _)
\* _generate_suggestions, lines 704-709: one token against the index keys
SuggestInner(keys, i, token, suggestions) ==
    IF i > Len(keys) THEN suggestions
    ELSE IF StartsWithPrefix3(keys[i], token) /\ keys[i] # token
         THEN LET s == Append(suggestions, keys[i])
              IN  IF Len(s) >= 3 THEN s ELSE SuggestInner(keys, i + 1, token, s)
         ELSE SuggestInner(keys, i + 1, token, suggestions)

RECURSIVE SuggestOuter(_, _, _)
SuggestOuter(keys, tokens, n) ==
    IF n = 0 THEN <<>>
    ELSE SuggestInner(keys, 1, tokens[n], SuggestOuter(keys, tokens, n - 1))

\* SearchEngine._generate_suggestions
generate_suggestions(st, text, fault) ==
    Catch(IF fault.step = "suggest" THEN Raise
          ELSE LET tokens == tokenize_query(text, fault)
                   s == SuggestOuter(st.index.order, tokens, Len(tokens))
               IN  Ok(SubSeq(s, 1, IF Len(s) < 3 THEN Len(s) ELSE 3)),
          <<>>)

\* SearchResponse(...)
SearchResponse(results, total_results, q, search_time_ms, total_pages, suggestions) ==
    [results |-> results, total_results |-> total_results, query |-> q.query,
     search_time_ms |-> search_time_ms, page |-> q.page, per_page |-> q.per_page,
     total_pages |-> total_pages, suggestions |-> suggestions]

NoValidTerms == <<"Kripya koi valid search term enter karein">>
Unavailable == <<"Search temporarily unavailable">>

\* the capacity of the query cache (self.cache_max_size); scaled down so
\* that the model's queries fill it
cache_max_size == 1

\* a larger capacity, for the engine whose cache is followed entry by entry
MaxCache == 2

\* search, line 540: f"{query}:{page}:{per_page}". The two numbers hold no
\* colon, so the string determines the triple.
cache_key(q) == <<q.query, q.page, q.per_page>>

\* a mutant of cache_store: the response is not kept
cache_store_dropping(cache, key, response, max_size) == cache

\* a mutant of cache_store: a full cache gives up one entry, not all
cache_store_evicting_one(cache, key, response, max_size) ==
    LET gone == IF Cardinality(DOMAIN cache) >= max_size
                THEN {CHOOSE k \in DOMAIN cache : TRUE} ELSE {}
    IN  [k \in ((DOMAIN cache) \ gone) \cup {key} |->
            IF k = key THEN response ELSE cache[k]]

\* search, lines 640-642
cache_store(cache, key, response, max_size) ==
    LET kept == IF Cardinality(DOMAIN cache) >= max_size
                THEN [k \in {} |-> 0] ELSE cache
    IN  [k \in (DOMAIN kept) \cup {key} |-> IF k = key THEN response ELSE kept[k]]

\* a mutant of Slice: the end index is taken as inclusive
Slice_inclusive(s, start_idx, end_idx) ==
    LET hi == IF end_idx + 1 < Len(s) THEN end_idx + 1 ELSE Len(s)
    IN  IF start_idx >= hi THEN <<>> ELSE SubSeq(s, start_idx + 1, hi)

\* ranked[start_idx:end_idx]
Slice(s, start_idx, end_idx) ==
    LET hi == IF end_idx < Len(s) THEN end_idx ELSE Len(s)
    IN  IF start_idx >= hi THEN <<>> ELSE SubSeq(s, start_idx + 1, hi)

\* what a call of search gives its caller: the response returned, or an
\* exception (raised); the cache afterwards; whether the cache answered
Returned(response, cache, hit) ==
    [response |-> response, cache |-> cache, raised |-> FALSE, hit |-> hit]

Escaped(q, cache) ==
    [response |-> SearchResponse(<<>>, 0, q, 0, 0, None), cache |-> cache,
     raised |-> TRUE, hit |-> FALSE]

\* search, lines 600-646: pagination, materialization, the response and the
\* cache store, for a ranked list that is not empty
search_finish(st, cache, q, t, ranked, query_terms, fault, max_size) ==
    LET total_results == Len(ranked)
        total_pages == (total_results + q.per_page - 1) \div q.per_page
        start_idx == (q.page - 1) * q.per_page
        end_idx == start_idx + q.per_page
        results == Materialize(st, Slice(ranked, start_idx, end_idx), query_terms, fault)
        response ==
            SearchResponse(results, total_results, q, t, total_pages,
                           IF results # <<>> THEN None
                           ELSE Some(generate_suggestions(st, q.query, fault)))
    IN  Returned(response, cache_store(cache, cache_key(q), response, max_size), FALSE)

\* search, lines 547-646: the pipeline after a cache miss. t is the elapsed
\* time, ord the order in which the candidate set is iterated. The fault
\* "top" raises in the loop of lines 565-570, outside every inner handler.
search_miss(st, cache, q, t, ord, fault, max_size) ==
    LET query_terms == tokenize_query(q.query, fault)
        candidates == retrieve_candidates(st, query_terms, fault)
        ranked == rank_documents(st, SelectSeqBy(ord, candidates), query_terms, fault)
    IN  IF query_terms = <<>>
        THEN Returned(SearchResponse(<<>>, 0, q, 0, 0, Some(NoValidTerms)), cache, FALSE)
        ELSE IF fault.step = "top" THEN Escaped(q, cache)
        ELSE IF candidates = {} \/ ranked = <<>>
        THEN Returned(SearchResponse(<<>>, 0, q, t, 0,
                                     Some(generate_suggestions(st, q.query, fault))),
                      cache, FALSE)
        ELSE search_finish(st, cache, q, t, ranked, query_terms, fault, max_size)

\* search, lines 539-646: the try block
search_try(st, cache, q, t, ord, fault, max_size) ==
    IF cache_key(q) \in DOMAIN cache
    THEN Returned(cache[cache_key(q)], cache, TRUE)
    ELSE search_miss(st, cache, q, t, ord, fault, max_size)

\* search, lines 539-573: the steps a call takes, in order, up to its first
\* reading of the index
search_steps(st, cache, q, fault) ==
    IF cache_key(q) \in DOMAIN cache THEN <<"cache_lookup">>
    ELSE IF tokenize_query(q.query, fault) = <<>> THEN <<"cache_lookup", "tokenize">>
    ELSE <<"cache_lookup", "tokenize", "index_lookup">>

RECURSIVE LookupAll(_, _, _)
\* search, lines 565-570: the index after the lookups of the first n terms
LookupAll(d, terms, n) ==
    IF n = 0 THEN d ELSE after_get(LookupAll(d, terms, n - 1), Lower(terms[n]))

\* the store a call of search leaves behind: a cache hit and a query without
\* terms return before any lookup
store_after_search(st, cache, q, fault) ==
    LET query_terms == tokenize_query(q.query, fault)
    IN  IF cache_key(q) \in DOMAIN cache THEN st
        ELSE [st EXCEPT !.index = LookupAll(st.index, query_terms, Len(query_terms))]

\* SearchEngine.build_index
build_index(st, docs) == add_documents(clear(st), docs)

\* SearchEngine.build_index when indexing the bad-th document raises: the
\* handler of lines 344-345 prints the error
build_index_try(st, docs, bad) == add_documents_try(clear(st), docs, bad).store

\* a mutant of search: no last-resort handler
search_unguarded(st, cache, q, t, ord, fault, max_size) ==
    search_try(st, cache, q, t, ord, fault, max_size)

\* SearchEngine.search
search(st, cache, q, t, ord, fault, max_size) ==
    LET r == search_try(st, cache, q, t, ord, fault, max_size)
    IN  IF r.raised
        THEN Returned(SearchResponse(<<>>, 0, q, t, 0, Some(Unavailable)), r.cache, FALSE)
        ELSE r

(***************************************************************************)
(* The inputs of the model.                                                *)
(***************************************************************************)
DocName == <<"d1", "d2", "d3", "d4">>
DocIds == {DocName[i] : i \in 1..MaxDocs}

\* the corpus: one file for each doc_id
Corpus ==
    {NewDocument(DocName[i], IF i % 2 = 1 THEN <<"Py", "the", "py">> ELSE <<"py", "go", "x">>)
        : i \in 1..MaxDocs}

\* the corpus, and the first file crawled again after its content changed
Docs == Corpus \cup {NewDocument(DocName[1], <<"py", "go", "x">>)}

\* the lists handed to add_documents and build_index
CorpusBatches == UNION {[1..n -> Corpus] : n \in 0..MaxBatch}

\* what a crawl returns: documents of distinct paths, hence distinct doc_ids
Crawls ==
    {b \in CorpusBatches : \A i, j \in DOMAIN b : i # j => b[i].doc_id # b[j].doc_id}

\* term lists of at most this many terms are handed to the retriever
MaxTerms == 3

\* query terms: two of the corpus and one that no document holds
Terms == {"py", "go", "zz"}

\* the non-empty term lists, repeated and unknown terms included
TermLists == UNION {[1..n -> Terms] : n \in 1..MaxTerms}

\* the arguments k1 and b of BM25Scorer(...): not supplied, 0, the default,
\* another value
ParamArgs == {None, Some(0), Some(75), Some(150), Some(200)}

IoOutcomes == {"ok", "makedirs_fails", "open_fails", "write_fails"}

Threads == {"t1", "t2"}

\* query strings: one term, two terms in mixed case, a stop word only, a
\* term that no document holds
Queries == {<<"py">>, <<"Py", "go">>, <<"the">>, <<"zz">>}

MaxPage == 2
MaxPerPage == 2
MaxTime == 2

\* SearchQuery: query validated non-empty, page >= 1, per_page >= 1
SearchQueries ==
    [query : Queries, page : 1..MaxPage, per_page : 1..MaxPerPage]

\* the queries for the first page
FirstPageQueries == {q \in SearchQueries : q.page = 1}

\* the elapsed time a call measures
Times == 1..MaxTime

\* the internal step of search that fails, if any
Faults ==
    {NoFault}
    \cup {[step |-> s, doc |-> ""] : s \in {"tokenize", "retrieve", "rank", "suggest", "top"}}
    \cup {[step |-> s, doc |-> d] : s \in {"score", "materialize"}, d \in DocIds}

\* the orders in which a set of doc_ids may be iterated
Orders ==
    {o \in [1..MaxDocs -> DocIds] : \A i, j \in 1..MaxDocs : i # j => o[i] # o[j]}

(***************************************************************************)
(* Spec: the index store and its persistence, one call at a time.          *)
(***************************************************************************)
SetStore(st) ==
    /\ index' = st.index
    /\ documents' = st.documents
    /\ metadata' = st.metadata
    /\ indexing_stats' = st.indexing_stats

Call(op, arg, ret) == [op |-> op, arg |-> arg, ret |-> ret]

Init ==
    /\ index = EmptyDict
    /\ documents = EmptyDict
    /\ metadata = NewIndexMetadata
    /\ indexing_stats = NewIndexingStats
    /\ disk = NoFile
    /\ saved = NewStore
    /\ query_cache = [k \in {} |-> 0]
    /\ pending_documents = <<>>
    /\ last_call = Call("init", <<>>, FALSE)
    /\ pc = [t \in Threads |-> "idle"]
    /\ local = [t \in Threads |-> <<>>]
    /\ partial_loads = 0

\* index.add_document(doc)
AddDocument(doc) ==
    /\ Has(documents, doc.doc_id) \/ metadata.total_tokens < MaxTokens
    /\ SetStore(add_document(Store, doc))
    /\ last_call' = Call("add_document", doc, Has(documents, doc.doc_id))
    /\ UNCHANGED <<disk, saved, query_cache, pending_documents, pc, local,
                   partial_loads>>

\* index.add_documents(iter(docs))
AddDocuments(docs) ==
    /\ metadata.total_tokens + 2 * Len(docs) <= MaxTokens + 2
    /\ SetStore(add_documents(Store, docs))
    /\ last_call' = Call("add_documents", Len(docs), FALSE)
    /\ UNCHANGED <<disk, saved, query_cache, pending_documents, pc, local,
                   partial_loads>>

\* index.clear()
Clear ==
    /\ SetStore(clear(Store))
    /\ last_call' = Call("clear", <<>>, FALSE)
    /\ UNCHANGED <<disk, saved, query_cache, pending_documents, pc, local,
                   partial_loads>>

\* index.save()
Save(io) ==
    LET r == save(Store, disk, io)
    IN  /\ SetStore(r.store)
        /\ disk' = r.disk
        /\ saved' = IF r.ret THEN r.store ELSE saved
        /\ last_call' = Call("save", io, r.ret)
        /\ UNCHANGED <<query_cache, pending_documents, pc, local, partial_loads>>

\* index.load()
\* the file is malformed past its metadata section
Overwrites(damage) == damage.kind \in {"index", "documents"}

\* index.load() of a file found with `damage`
Load(damage) ==
    LET r == load(Store, disk, damage)
    IN  /\ Overwrites(damage) => partial_loads < MaxPartialLoads
        /\ SetStore(r.store)
        /\ last_call' = Call("load", damage, r.ret)
        /\ partial_loads' = IF Overwrites(damage) THEN partial_loads + 1 ELSE partial_loads
        /\ UNCHANGED <<disk, saved, query_cache, pending_documents, pc, local>>

Next ==
    \/ \E doc \in Docs : AddDocument(doc)
    \/ \E docs \in CorpusBatches : AddDocuments(docs)
    \/ Clear
    \/ \E io \in IoOutcomes : Save(io)
    \/ \E damage \in Damages(disk) : ~Overwrites(damage) /\ Load(damage)

Spec == Init /\ [][Next]_vars

(***************************************************************************)
(* SpecLoad: the store with loads of files malformed at any point.         *)
(***************************************************************************)
NextLoad ==
    \/ \E doc \in Docs : AddDocument(doc)
    \/ Clear
    \/ Save("ok")
    \/ \E damage \in Damages(disk) : Load(damage)

SpecLoad == Init /\ [][NextLoad]_vars

(***************************************************************************)
(* SpecIngest: every way of adding documents, with clear and save.         *)
(***************************************************************************)
\* the staging list holds at most this many documents
MaxPending == 2

\* a file of one token, under the last doc_id
ShortDoc == NewDocument(DocName[MaxDocs], <<"go", "!!">>)

IngestDocs == Docs \cup {ShortDoc}

\* indexer.stage_document(doc)
StageDocument(doc) ==
    /\ Len(pending_documents) < MaxPending
    /\ pending_documents' = stage_document(pending_documents, doc)
    /\ last_call' = Call("stage_document", doc, FALSE)
    /\ UNCHANGED <<storeVars, disk, saved, query_cache, pc, local, partial_loads>>

\* indexer.commit()
Commit ==
    /\ metadata.total_tokens + 2 * Len(pending_documents) <= MaxTokens + 2
    /\ SetStore(commit(Store, pending_documents))
    /\ pending_documents' = <<>>
    /\ last_call' = Call("commit", <<>>, Len(pending_documents))
    /\ UNCHANGED <<disk, saved, query_cache, pc, local, partial_loads>>

NextIngest ==
    \/ \E doc \in IngestDocs : AddDocument(doc)
    \/ \E docs \in CorpusBatches : AddDocuments(docs)
    \/ \E doc \in IngestDocs : StageDocument(doc)
    \/ Commit
    \/ Clear
    \/ \E io \in IoOutcomes : Save(io)

SpecIngest == Init /\ [][NextIngest]_vars

(***************************************************************************)
(* SpecStage: additions, staging, commit and clear, with no persistence.   *)
(***************************************************************************)
NextStage ==
    \/ \E doc \in IngestDocs : AddDocument(doc)
    \/ \E docs \in CorpusBatches : AddDocuments(docs)
    \/ \E doc \in IngestDocs : StageDocument(doc)
    \/ Commit
    \/ Clear

SpecStage == Init /\ [][NextStage]_vars

(***************************************************************************)
(* SpecSearch: the search engine over its index, one call at a time.       *)
(***************************************************************************)
\* engine.build_index(docs)
BuildIndex(docs) ==
    /\ SetStore(build_index(Store, docs))
    /\ last_call' = Call("build_index", Len(docs), FALSE)
    /\ UNCHANGED <<disk, saved, query_cache, pending_documents, pc, local,
                   partial_loads>>

\* engine.search(q) of an engine whose cache_max_size is max_size; the call
\* record notes how many cache entries the call removed
SearchWith(q, t, ord, fault, max_size) ==
    \E r \in {search(Store, query_cache, q, t, ord, fault, max_size)} :
        /\ SetStore(store_after_search(Store, query_cache, q, fault))
        /\ query_cache' = r.cache
        /\ last_call' = [op |-> "search",
                         arg |-> [q |-> q, fault |-> fault],
                         ret |-> r.response, hit |-> r.hit, raised |-> r.raised,
                         evicted |-> Cardinality((DOMAIN query_cache) \ DOMAIN r.cache)]
        /\ UNCHANGED <<disk, saved, pending_documents, pc, local,
                       partial_loads>>

\* engine.search(q)
Search(q, t, ord, fault) == SearchWith(q, t, ord, fault, cache_max_size)

NextSearch ==
    \/ \E doc \in Corpus : AddDocument(doc)
    \/ \E docs \in CorpusBatches : BuildIndex(docs)
    \/ \E q \in SearchQueries, t \in Times, ord \in Orders : Search(q, t, ord, NoFault)

SpecSearch == Init /\ [][NextSearch]_vars

(***************************************************************************)
(* SpecCache: searches of an engine whose cache holds MaxCache entries.    *)
(***************************************************************************)
NextCache ==
    \/ \E doc \in Corpus : AddDocument(doc)
    \/ \E q \in FirstPageQueries, ord \in Orders : SearchWith(q, 1, ord, NoFault, MaxCache)

SpecCache == Init /\ [][NextCache]_vars

(***************************************************************************)
(* SpecSuggest: searches of an index whose terms share prefixes.           *)
(***************************************************************************)
\* the corpus, and the first file with a word that starts with another
SuggestFiles == Corpus \cup {NewDocument(DocName[1], <<"gopher", "py">>)}

\* a term, the term and a word that starts with it, and an unknown term
SuggestQueries ==
    [query : {<<"go">>, <<"go", "gopher">>, <<"zz">>}, page : 1..MaxPage,
     per_page : {MaxPerPage}]

NextSuggest ==
    \/ \E doc \in SuggestFiles : AddDocument(doc)
    \/ \E q \in SuggestQueries, ord \in Orders : Search(q, 1, ord, NoFault)

SpecSuggest == Init /\ [][NextSuggest]_vars

(***************************************************************************)
(* SpecRace: a search whose index is changed by other callers between its  *)
(* ranking and its materialization. A search that ranks at least one       *)
(* document takes two steps; clear and add_document run between them.      *)
(***************************************************************************)
\* search, lines 539-597: the cache check, the tokens, the candidates and
\* the ranking, for a query that ranks at least one document
RankQuery(t, q, ord) ==
    LET query_terms == tokenize_query(q.query, NoFault)
        candidates == retrieve_candidates(Store, query_terms, NoFault)
        ranked == rank_documents(Store, SelectSeqBy(ord, candidates), query_terms, NoFault)
    IN  /\ pc[t] = "idle"
        /\ cache_key(q) \notin DOMAIN query_cache
        /\ ranked # <<>>
        /\ local' = [local EXCEPT ![t] =
                        [q |-> q, ranked |-> ranked, query_terms |-> query_terms]]
        /\ pc' = [pc EXCEPT ![t] = "ranked"]
        /\ last_call' = Call("rank", q, FALSE)
        /\ UNCHANGED <<storeVars, disk, saved, query_cache, pending_documents,
                       partial_loads>>

\* search, lines 600-646: the rest of the call, over the index as it is now
MaterializeQuery(t) ==
    LET l == local[t]
        r == search_finish(Store, query_cache, l.q, 1, l.ranked, l.query_terms,
                           NoFault, cache_max_size)
    IN  /\ pc[t] = "ranked"
        /\ query_cache' = r.cache
        /\ local' = [local EXCEPT ![t] = <<>>]
        /\ pc' = [pc EXCEPT ![t] = "idle"]
        /\ last_call' = [op |-> "materialize", arg |-> l.q, ranked |-> l.ranked,
                         ret |-> r.response, raised |-> r.raised]
        /\ UNCHANGED <<storeVars, disk, saved, pending_documents, partial_loads>>

NextRace ==
    \/ \E doc \in Corpus : AddDocument(doc)
    \/ Clear
    \/ \E t \in Threads, q \in FirstPageQueries, ord \in Orders : RankQuery(t, q, ord)
    \/ \E t \in Threads : MaterializeQuery(t)

SpecRace == Init /\ [][NextRace]_vars

(***************************************************************************)
(* SpecFault: searches during which an internal step may fail.             *)
(***************************************************************************)
NextFault ==
    \/ \E doc \in Corpus : AddDocument(doc)
    \/ \E q \in FirstPageQueries, ord \in Orders, fault \in Faults :
          Search(q, 1, ord, fault)

SpecFault == Init /\ [][NextFault]_vars

(***************************************************************************)
(* SpecBulk: an index built from one batch of many files, and searched.    *)
(* build_index is run by one caller, one turn of the loop of add_documents *)
(* at a step; searches are made when no build is running.                  *)
(***************************************************************************)
\* the largest batch holds this many files
MaxBulk == 50

\* the batches: the two files of the example, and the largest
BulkSizes == {2, MaxBulk}

\* the doc_id of the i-th file
BulkName(i) == ToString(i)

\* the i-th file of a batch, with the contents of the corpus
BulkFile(i) ==
    NewDocument(BulkName(i),
                IF i % 2 = 1 THEN <<"Py", "the", "py">> ELSE <<"py", "go", "x">>)

\* the candidate set is iterated in the order of the doc_ids
BulkOrder == [i \in 1..MaxBulk |-> BulkName(i)]

\* single-term queries for the first page
BulkQueries ==
    [query : {<<"py">>, <<"go">>}, page : {1}, per_page : {MaxPerPage}]

\* the thread that builds
Builder == "t1"

\* build_index, lines 341-342: index.clear() and the call of add_documents
\* with a batch of k files
BuildStart(k) ==
    /\ pc[Builder] = "idle"
    /\ SetStore(clear(Store))
    /\ local' = [local EXCEPT ![Builder] = [files |-> k, i |-> 1]]
    /\ pc' = [pc EXCEPT ![Builder] = "batch"]
    /\ last_call' = Call("build_index", k, FALSE)
    /\ UNCHANGED <<disk, saved, query_cache, pending_documents, partial_loads>>

\* add_documents, lines 287-289: one turn of the loop
BuildAddNext ==
    /\ pc[Builder] = "batch"
    /\ local[Builder].i <= local[Builder].files
    /\ SetStore(add_document(Store, BulkFile(local[Builder].i)))
    /\ local' = [local EXCEPT ![Builder].i = @ + 1]
    /\ UNCHANGED <<disk, saved, query_cache, pending_documents, last_call, pc,
                   partial_loads>>

\* add_documents, lines 295-297: the IDF refresh after the loop
BuildFinish ==
    /\ pc[Builder] = "batch"
    /\ local[Builder].i > local[Builder].files
    /\ SetStore(update_idf_scores(Store))
    /\ local' = [local EXCEPT ![Builder] = <<>>]
    /\ pc' = [pc EXCEPT ![Builder] = "idle"]
    /\ UNCHANGED <<disk, saved, query_cache, pending_documents, last_call,
                   partial_loads>>

NextBulk ==
    \/ \E k \in BulkSizes : BuildStart(k)
    \/ BuildAddNext
    \/ BuildFinish
    \/ \E q \in BulkQueries : pc[Builder] = "idle" /\ Search(q, 1, BulkOrder, NoFault)

SpecBulk == Init /\ [][NextBulk]_vars

(***************************************************************************)
(* SpecBatch: batches in which indexing one document may fail.             *)
(***************************************************************************)
\* a batch and the place of its bad document, 0 for none
BadBatches == {[docs |-> docs, bad |-> bad] : docs \in CorpusBatches, bad \in 0..MaxBatch}

\* index.add_documents(iter(docs)) with a bad document
AddDocumentsBad(b) ==
    LET r == add_documents_try(Store, b.docs, b.bad)
    IN  /\ b.bad <= Len(b.docs)
        /\ SetStore(r.store)
        /\ last_call' = Call("add_documents_bad", b, r.raised)
        /\ UNCHANGED <<disk, saved, query_cache, pending_documents, pc, local,
                       partial_loads>>

\* engine.build_index(docs) with a bad document
BuildIndexBad(b) ==
    /\ b.bad <= Len(b.docs)
    /\ SetStore(build_index_try(Store, b.docs, b.bad))
    /\ last_call' = Call("build_index_bad", b, FALSE)
    /\ UNCHANGED <<disk, saved, query_cache, pending_documents, pc, local,
                   partial_loads>>

NextBatch ==
    \/ \E doc \in Docs : AddDocument(doc)
    \/ \E b \in BadBatches : AddDocumentsBad(b)
    \/ \E b \in BadBatches : BuildIndexBad(b)

SpecBatch == Init /\ [][NextBatch]_vars

(***************************************************************************)
(* SpecConc: background indexing (main.py, _background_indexing), run by   *)
(* thread-pool threads with no lock, while searches are served. A thread   *)
(* takes one statement of add_document at a step; a method that the        *)
(* statement calls runs within the step.                                   *)
(***************************************************************************)
\* the next document of the run, or the save after the last one
Advance(t) ==
    LET l == local[t]
    IN  IF l.i < Len(l.docs)
        THEN /\ local' = [local EXCEPT ![t] = [l EXCEPT !.i = l.i + 1]]
             /\ pc' = [pc EXCEPT ![t] = "check"]
        ELSE /\ local' = local
             /\ pc' = [pc EXCEPT ![t] = "save"]

Step(t) == Call("indexing_step", t, FALSE)

\* _background_indexing, line 481: documents = crawl_documents(path, recursive)
StartIndexing(t, docs) ==
    /\ pc[t] = "idle"
    /\ local' = [local EXCEPT ![t] =
                    [docs |-> docs, i |-> 1, doc |-> <<>>, tp |-> EmptyDict, k |-> 1]]
    /\ pc' = [pc EXCEPT ![t] = IF docs = <<>> THEN "save" ELSE "check"]
    /\ last_call' = Step(t)
    /\ UNCHANGED <<storeVars, disk, saved, query_cache, pending_documents, partial_loads>>

\* add_document, lines 237-252: the duplicate check, the tokens and the
\* positions of the terms
CheckDocument(t) ==
    LET l == local[t]
        doc == l.docs[l.i]
        tokens == preprocess(doc.content)
        tp == TermPositions(tokens, Len(tokens))
    IN  /\ pc[t] = "check"
        /\ IF Has(documents, doc.doc_id)
           THEN Advance(t)
           ELSE /\ local' = [local EXCEPT ![t] =
                               [l EXCEPT !.doc = update_stats([doc EXCEPT !.tokens = tokens]),
                                         !.tp = tp, !.k = 1]]
                /\ pc' = [pc EXCEPT ![t] = IF tp.order = <<>> THEN "store" ELSE "terms"]
        /\ last_call' = Step(t)
        /\ UNCHANGED <<storeVars, disk, saved, query_cache, pending_documents, partial_loads>>

\* add_document, lines 255-264: one turn of the loop over the terms
IndexNextTerm(t) ==
    LET l == local[t]
        term == l.tp.order[l.k]
    IN  /\ pc[t] = "terms"
        /\ index' = IndexTerm(index, l.doc.doc_id, term, l.tp.at[term])
        /\ indexing_stats' = [indexing_stats EXCEPT !.postings_created = @ + 1]
        /\ local' = [local EXCEPT ![t] = [l EXCEPT !.k = l.k + 1]]
        /\ pc' = [pc EXCEPT ![t] = IF l.k = Len(l.tp.order) THEN "store" ELSE "terms"]
        /\ last_call' = Step(t)
        /\ UNCHANGED <<documents, metadata, disk, saved, query_cache, pending_documents,
                       partial_loads>>

\* add_document, line 267: self.documents[doc.doc_id] = doc
StoreDocument(t) ==
    /\ pc[t] = "store"
    /\ documents' = Put(documents, local[t].doc.doc_id, local[t].doc)
    /\ pc' = [pc EXCEPT ![t] = "metadata"]
    /\ last_call' = Step(t)
    /\ UNCHANGED <<index, metadata, indexing_stats, disk, saved, query_cache,
                   pending_documents, local, partial_loads>>

\* add_document, line 270: self.metadata.add_document(doc)
UpdateMetadata(t) ==
    /\ pc[t] = "metadata"
    /\ metadata' = metadata_add_document(metadata, local[t].doc)
    /\ pc' = [pc EXCEPT ![t] = "stats"]
    /\ last_call' = Step(t)
    /\ UNCHANGED <<index, documents, indexing_stats, disk, saved, query_cache,
                   pending_documents, local, partial_loads>>

\* add_document, line 271, and the return to the loop of _background_indexing
UpdateStats(t) ==
    /\ pc[t] = "stats"
    /\ indexing_stats' =
          [indexing_stats EXCEPT !.terms_indexed = @ + Len(local[t].tp.order)]
    /\ Advance(t)
    /\ last_call' = Step(t)
    /\ UNCHANGED <<index, documents, metadata, disk, saved, query_cache,
                   pending_documents, partial_loads>>

\* _background_indexing, line 486: app_state.search_engine.index.save()
SaveIndex(t) ==
    LET r == save(Store, disk, "ok")
    IN  /\ pc[t] = "save"
        /\ SetStore(r.store)
        /\ disk' = r.disk
        /\ saved' = r.store
        /\ pc' = [pc EXCEPT ![t] = "idle"]
        /\ local' = [local EXCEPT ![t] = <<>>]
        /\ last_call' = Step(t)
        /\ UNCHANGED <<query_cache, pending_documents, partial_loads>>

\* the queries served while indexing runs
ConcQueries == {q \in FirstPageQueries : q.per_page = MaxPerPage /\ q.query = <<"py">>}

NextConc ==
    \/ \E t \in Threads, docs \in Crawls : StartIndexing(t, docs)
    \/ \E t \in Threads : CheckDocument(t)
    \/ \E t \in Threads : IndexNextTerm(t)
    \/ \E t \in Threads : StoreDocument(t)
    \/ \E t \in Threads : UpdateMetadata(t)
    \/ \E t \in Threads : UpdateStats(t)
    \/ \E t \in Threads : SaveIndex(t)
    \/ \E q \in ConcQueries, ord \in Orders : Search(q, 1, ord, NoFault)

SpecConc == Init /\ [][NextConc]_vars

(***************************************************************************)
(* Properties of the index store.                                          *)
(***************************************************************************)

\* C1: every term of the index has doc_frequency equal to the number of
\* doc_id keys of its postings, after any sequence of calls.
C1_DocFrequencyIsPostings ==
    \A t \in Keys(index) :
        index.at[t].doc_frequency = Cardinality(Keys(index.at[t].postings))

\* C1 witness: two documents share a term that one of them repeats, and the
\* last call was an add_document with a doc_id already stored.
C1_Witness ==
    /\ last_call.op = "add_document" /\ last_call.ret
    /\ \E t \in Keys(index) :
          /\ index.at[t].doc_frequency = 2
          /\ \E d \in Keys(index.at[t].postings) :
                index.at[t].postings.at[d].frequency = 2

\* C2: a step that is add_document with a doc_id already in the document
\* store changes nothing of the store: index, documents, metadata, stats.
C2_DuplicateIdIsNoOp ==
    [][(last_call'.op = "add_document" /\ last_call'.ret) => UNCHANGED storeVars]_vars

\* C2 witness: the last call was add_document with a stored doc_id and a
\* content other than the stored one.
C2_Witness ==
    /\ last_call.op = "add_document" /\ last_call.ret
    /\ documents.at[last_call.arg.doc_id].content # last_call.arg.content

\* C3: a load that returns False leaves the store as it was.
C3_FailedLoadLeavesStore ==
    [][(last_call'.op = "load" /\ ~last_call'.ret) => UNCHANGED storeVars]_vars

\* C4: after a load that succeeds, whatever the store held before it, the
\* store is the one that the save of the file left behind (save itself sets
\* total_documents, total_terms and document_ids): same terms in the same
\* order, same postings, same documents, same metadata counters.
C4_RoundTrip ==
    (last_call.op = "load" /\ last_call.ret) =>
        /\ index = saved.index
        /\ documents = saved.documents
        /\ metadata.total_documents = saved.metadata.total_documents
        /\ metadata.total_terms = saved.metadata.total_terms
        /\ metadata.total_tokens = saved.metadata.total_tokens
        /\ metadata.avg_doc_length = saved.metadata.avg_doc_length
        /\ metadata.document_ids = saved.metadata.document_ids

\* C4 witness: a load has succeeded on a file that holds two documents, a
\* term of two postings and a posting of frequency 2.
C4_Witness ==
    /\ last_call.op = "load" /\ last_call.ret
    /\ Cardinality(Keys(documents)) = 2
    /\ metadata.total_terms = 2
    /\ \E t \in Keys(index) :
          /\ index.at[t].doc_frequency = 2
          /\ \E d \in Keys(index.at[t].postings) :
                index.at[t].postings.at[d].positions = <<0, 1>>

(***************************************************************************)
(* Properties of search.                                                   *)
(***************************************************************************)

\* C5 as stated: a search that directly repeats the previous search, same
\* (query, page, per_page), is a cache hit and returns the previous response
\* unchanged, whatever that response was.
C5_RepeatIsCacheHit ==
    [][(/\ last_call.op = "search"
        /\ last_call'.op = "search"
        /\ last_call'.arg.q = last_call.arg.q)
       => (last_call'.hit /\ last_call'.ret = last_call.ret)]_vars

\* C5 amended: a search that directly repeats the previous search is a cache
\* hit and returns the previous response unchanged, timing included, when
\* that response had at least one ranked result.
C5_RepeatAfterResultsIsCacheHit ==
    [][(/\ last_call.op = "search"
        /\ last_call.ret.total_results >= 1
        /\ last_call'.op = "search"
        /\ last_call'.arg.q = last_call.arg.q)
       => (last_call'.hit /\ last_call'.ret = last_call.ret)]_vars

\* C5 witness: a repeated search was answered by the cache with the response
\* of two results that the first call built.
C5_Witness ==
    /\ last_call.op = "search" /\ last_call.hit
    /\ last_call.ret.total_results = 2
    /\ Len(last_call.ret.results) = 2
    /\ query_cache[cache_key(last_call.arg.q)] = last_call.ret

\* the query terms of the last search
LastTerms == preprocess(last_call.arg.q.query)

\* the doc_ids that a search of the present index ranks for the last query
LastRanked ==
    {d \in retrieve_candidates(Store, LastTerms, NoFault) :
        bm25_score(Store, LastTerms, d) >= MIN_RELEVANCE_SCORE}

\* C6: every response a search returns agrees with the index as it is: it
\* counts the documents that the index ranks for the query, and each result
\* is a stored document with the score the index gives it.
C6_ResponseAgreesWithIndex ==
    last_call.op = "search" =>
        /\ last_call.ret.total_results = Cardinality(LastRanked)
        /\ \A i \in DOMAIN last_call.ret.results :
              LET r == last_call.ret.results[i]
              IN  /\ r.doc_id \in LastRanked
                  /\ r.score = bm25_score(Store, LastTerms, r.doc_id)
                  /\ r.content = documents.at[r.doc_id].content

\* a response with its fields in range for the query q
WellFormed(response, q) ==
    /\ DOMAIN response.results = 1..Len(response.results)
    /\ Len(response.results) <= q.per_page
    /\ response.total_results \in Nat
    /\ response.total_pages \in Nat
    /\ response.page = q.page
    /\ response.per_page = q.per_page
    /\ response.query = q.query

\* the last search failed outside every inner handler
TopLevelFailure ==
    /\ last_call.arg.fault.step = "top"
    /\ ~last_call.hit
    /\ LastTerms # <<>>

\* C7: search returns a well-formed response and never raises, whichever
\* internal step fails; a failure caught by the last-resort handler gives the
\* empty response with the 'temporarily unavailable' suggestion.
C7_SearchNeverRaises ==
    last_call.op = "search" =>
        /\ ~last_call.raised
        /\ WellFormed(last_call.ret, last_call.arg.q)
        /\ TopLevelFailure =>
              /\ last_call.ret.results = <<>>
              /\ last_call.ret.total_results = 0
              /\ last_call.ret.total_pages = 0
              /\ last_call.ret.suggestions = Some(Unavailable)

\* C7 witness: a search of an index of two documents failed at the top level.
C7_Witness ==
    /\ last_call.op = "search"
    /\ TopLevelFailure
    /\ Cardinality(Keys(documents)) = 2
    /\ retrieve_candidates(Store, LastTerms, NoFault) # {}

\* C8: a step that is a call of search leaves the index, the documents, the
\* metadata and the statistics as they were.
C8_SearchIsReadOnly ==
    [][last_call'.op = "search" => UNCHANGED storeVars]_vars

\* C8 witness: a search missed the cache, looked up a term that the index of
\* two documents does not hold, and returned no result.
C8_Witness ==
    /\ last_call.op = "search" /\ ~last_call.hit
    /\ Cardinality(Keys(documents)) = 2
    /\ \E i \in DOMAIN LastTerms : ~Has(index, LastTerms[i])
    /\ last_call.ret.results = <<>>

\* the number of ranked documents that score more than v, and at least v
Above(v) == Cardinality({d \in LastRanked : bm25_score(Store, LastTerms, d) > v})
AtLeast(v) == Cardinality({d \in LastRanked : bm25_score(Store, LastTerms, d) >= v})

\* C9: a search that ranks T >= 1 documents reports total_results = T and
\* total_pages = ceil(T / per_page); its results are the ranked documents at
\* the places (page-1)*per_page + 1 .. page*per_page of the descending order
\* of scores, as far as there are any; a page past total_pages is empty.
C9_Pagination ==
    (last_call.op = "search" /\ ~last_call.hit /\ LastRanked # {}) =>
        LET T == Cardinality(LastRanked)
            q == last_call.arg.q
            response == last_call.ret
            first == (q.page - 1) * q.per_page
        IN  /\ response.total_results = T
            /\ response.total_pages * q.per_page >= T
            /\ (response.total_pages - 1) * q.per_page < T
            /\ Len(response.results) =
                  IF first >= T THEN 0
                  ELSE IF first + q.per_page <= T THEN q.per_page ELSE T - first
            /\ \A i \in DOMAIN response.results :
                  LET r == response.results[i]
                  IN  /\ r.doc_id \in LastRanked
                      /\ r.score = bm25_score(Store, LastTerms, r.doc_id)
                      /\ Above(r.score) < first + i
                      /\ AtLeast(r.score) >= first + i
            /\ \A i, j \in DOMAIN response.results :
                  i # j => response.results[i].doc_id # response.results[j].doc_id
            /\ q.page > response.total_pages => response.results = <<>>

\* C9 witness: two documents are ranked, the query asks for page 2 at one
\* result a page, and the response holds the second of them.
C9_Witness ==
    /\ last_call.op = "search" /\ ~last_call.hit
    /\ Cardinality(LastRanked) = 2
    /\ last_call.arg.q.per_page = 1 /\ last_call.arg.q.page = 2
    /\ last_call.ret.total_pages = 2
    /\ Len(last_call.ret.results) = 1
    /\ Above(last_call.ret.results[1].score) = 1

(***************************************************************************)
(* Properties of indexing that runs while searches are served.             *)
(***************************************************************************)
\* the doc_id is in the postings of some term
InSomePostings(d) == \E t \in Keys(index) : Has(index.at[t].postings, d)

\* the doc_id is in the postings of every term of the stored document
InAllItsPostings(d) ==
    \A i \in DOMAIN documents.at[d].tokens :
        /\ Has(index, documents.at[d].tokens[i])
        /\ Has(index.at[documents.at[d].tokens[i]].postings, d)

\* nothing of the document is in the store
NoEffect(d) ==
    /\ ~Has(documents, d)
    /\ ~InSomePostings(d)
    /\ d \notin Range(metadata.document_ids)

\* all of the document is in the store
AllEffects(d) ==
    /\ Has(documents, d)
    /\ InAllItsPostings(d)
    /\ d \in Range(metadata.document_ids)

RECURSIVE TokensOf(_, _)
\* the word counts of the first n stored documents, summed
TokensOf(order, n) ==
    IF n = 0 THEN 0 ELSE TokensOf(order, n - 1) + documents.at[order[n]].word_count

\* the counters of the metadata are those of the stored documents
CountersMatchDocuments ==
    /\ metadata.total_documents = Len(documents.order)
    /\ metadata.total_tokens = TokensOf(documents.order, Len(documents.order))
    /\ metadata.avg_doc_length = Ratio(metadata.total_tokens, metadata.total_documents)

\* C10: the store a search reads holds each document wholly or not at all:
\* its doc_id in the postings of all its terms, its entry in the document
\* store and its share of total_documents, total_tokens and avg_doc_length.
C10_NoTornState ==
    last_call.op = "search" =>
        /\ \A d \in DocIds : NoEffect(d) \/ AllEffects(d)
        /\ CountersMatchDocuments

\* how many times x occurs in the list s
Count(s, x) == Cardinality({i \in DOMAIN s : s[i] = x})

\* the frequency the index records for the term in the document
RecordedFrequency(term, d) ==
    IF Has(index.at[term].postings, d) THEN index.at[term].postings.at[d].frequency ELSE 0

\* every indexing run has left its loop over add_document, and none has
\* reached its save (which rewrites total_documents and document_ids)
RunsDone == (\A t \in Threads : pc[t] \in {"idle", "save"}) /\ disk = NoFile

\* C11: when the indexing runs have made their add_document calls, runs that
\* were handed the same doc_id included, each stored document was indexed by
\* exactly one call: every term's frequency for it is the term's number of
\* occurrences in its tokens, its doc_id is once in document_ids, and
\* total_documents and total_tokens count it once.
C11_ExactlyOneIndexes ==
    RunsDone =>
        /\ \A d \in Keys(documents) :
              /\ \A term \in Keys(index) :
                    RecordedFrequency(term, d) = Count(documents.at[d].tokens, term)
              /\ Count(metadata.document_ids, d) = 1
        /\ metadata.total_documents = Len(documents.order)
        /\ metadata.total_tokens = TokensOf(documents.order, Len(documents.order))

(***************************************************************************)
(* Properties of the metadata.                                             *)
(***************************************************************************)

\* C12: after any sequence of add_document, add_documents, stage_document,
\* commit, clear and save, a store that holds a document has avg_doc_length
\* equal to total_tokens / total_documents, which is the mean word_count of
\* the stored documents; after clear, avg_doc_length is 0.
C12_AvgDocLengthIsCurrent ==
    /\ Keys(documents) # {} =>
          /\ metadata.total_documents = Len(documents.order)
          /\ metadata.total_tokens = TokensOf(documents.order, Len(documents.order))
          /\ metadata.avg_doc_length =
                Ratio(metadata.total_tokens, metadata.total_documents)
    /\ last_call.op = "clear" => metadata.avg_doc_length = Ratio(0, 1)

\* C12 witness: a commit has added a document to a store that held one of
\* another length, and the average is 3/2.
C12_Witness ==
    /\ last_call.op = "commit" /\ last_call.ret = 1
    /\ Cardinality(Keys(documents)) = 2
    /\ metadata.avg_doc_length = [num |-> 3, den |-> 2]

(***************************************************************************)
(* Properties of retrieval and scoring.                                    *)
(***************************************************************************)

ScoredIds == DocIds \cup {DocName[MaxDocs + 1]}

\* the term is not in the index, or the document is not in its postings
AbsentFromPostings(term, d) ==
    \/ IsNone(get_term_postings(Store, term))
    \/ ~Has(Val(get_term_postings(Store, term)).postings, d)

\* C14: score_term(term, doc_id) is exactly 0 whenever the term is absent
\* from the index, the document is absent from the term's postings, or the
\* document is missing from the document store.
C14_AbsentScoresZero ==
    \A term \in Terms, d \in ScoredIds :
        (AbsentFromPostings(term, d) \/ ~Has(documents, d)) =>
            score_term(Store, term, d, BM25_K1, BM25_B) = 0

\* C14 witness: the index holds a term whose postings name a document that
\* the document store lacks, a stored document that is outside the postings
\* of a term of the index, and a pair that scores above 0.
C14_Witness ==
    /\ \E term \in Terms, d \in ScoredIds :
          ~AbsentFromPostings(term, d) /\ ~Has(documents, d)
    /\ \E term \in Terms, d \in ScoredIds :
          /\ ~IsNone(get_term_postings(Store, term))
          /\ AbsentFromPostings(term, d) /\ Has(documents, d)
    /\ \E term \in Terms, d \in ScoredIds :
          score_term(Store, term, d, BM25_K1, BM25_B) > 0

(***************************************************************************)
(* Properties of the search pipeline.                                      *)
(***************************************************************************)

\* C15: a search whose query has an empty token list returns the zero-result
\* response with the 'no valid terms' suggestion, and the call consults
\* neither the query cache nor the index.
C15_NoTermsSkipsCache ==
    [][(last_call'.op = "search" /\ preprocess(last_call'.arg.q.query) = <<>>) =>
          LET q == last_call'.arg.q
              steps == search_steps(Store, query_cache, q, last_call'.arg.fault)
          IN  /\ last_call'.ret = SearchResponse(<<>>, 0, q, 0, 0, Some(NoValidTerms))
              /\ "cache_lookup" \notin Range(steps)
              /\ "index_lookup" \notin Range(steps)]_vars

\* the stored documents whose token sequence holds the term
Holders(term) == {d \in Keys(documents) : term \in Range(documents.at[d].tokens)}

\* the holders that score at least the minimum relevance
RelevantHolders(term) ==
    {d \in Holders(term) : bm25_score(Store, <<term>>, d) >= MIN_RELEVANCE_SCORE}

\* the last call was a search of one term, answered from an index that one
\* batch built and not by the cache
SingleTermSearch ==
    /\ last_call.op = "search" /\ ~last_call.hit
    /\ Len(LastTerms) = 1
    /\ pc[Builder] = "idle"

\* the number of results on the page of q, of total ranked documents
PageLen(q, total) ==
    LET first == (q.page - 1) * q.per_page
    IN  IF first >= total THEN 0
        ELSE IF first + q.per_page <= total THEN q.per_page ELSE total - first

\* the response of the last search is made of the documents in `expected`
ReturnsExactly(expected) ==
    /\ last_call.ret.total_results = Cardinality(expected)
    /\ Len(last_call.ret.results) = PageLen(last_call.arg.q, Cardinality(expected))
    /\ \A i \in DOMAIN last_call.ret.results :
          LET r == last_call.ret.results[i]
          IN  /\ r.doc_id \in expected
              /\ r.score > 0
              /\ r.matched_terms = LastTerms

\* C16 as stated: after one batch was indexed, a single-term query returns
\* exactly the documents whose token sequence holds the term, each with a
\* positive score and the term in matched_terms.
C16_ReturnsEveryHolder ==
    SingleTermSearch => ReturnsExactly(Holders(LastTerms[1]))

\* C16 amended: after one batch was indexed, a single-term query returns
\* exactly the documents that hold the term and score at least
\* MIN_RELEVANCE_SCORE, each with the term in matched_terms; every document
\* that holds the term has a positive score, returned or not.
C16_ReturnsRelevantHolders ==
    SingleTermSearch =>
        /\ ReturnsExactly(RelevantHolders(LastTerms[1]))
        /\ \A d \in Holders(LastTerms[1]) : bm25_score(Store, LastTerms, d) > 0

\* C16 witness: a term that every file of the largest batch holds was
\* searched, and some but not all of its holders were returned.
C16_Witness ==
    /\ SingleTermSearch
    /\ Cardinality(Keys(documents)) = MaxBulk
    /\ Holders(LastTerms[1]) = Keys(documents)
    /\ last_call.ret.total_results >= 1
    /\ last_call.ret.total_results < MaxBulk
    /\ last_call.ret.results # <<>>

(***************************************************************************)
(* Properties of batch ingestion.                                          *)
(***************************************************************************)

\* C17: when indexing one document of a batch fails, add_documents (and
\* build_index through it) skips that document and completes: the call does
\* not raise, every later document of the batch is stored, and every term
\* of the index carries the refreshed IDF.
C17_BatchContinues ==
    (last_call.op \in {"add_documents_bad", "build_index_bad"}
     /\ last_call.arg.bad > 0) =>
        /\ ~last_call.ret
        /\ \A i \in (last_call.arg.bad + 1)..Len(last_call.arg.docs) :
              Has(documents, last_call.arg.docs[i].doc_id)
        /\ \A t \in Keys(index) : index.at[t].idf_score = calculate_idf(Store, t)

\* C18: after a call of add_document or add_documents, metadata.total_terms
\* is the number of distinct terms of the index.
C18_TotalTermsIsVocabulary ==
    last_call.op \in {"add_document", "add_documents"} =>
        metadata.total_terms = Cardinality(Keys(index))

(***************************************************************************)
(* Properties of the IDF refresh and of the TF-IDF scorer.                 *)
(***************************************************************************)
\* the store with the term's doc_frequency set to df
WithFrequency(term, df) == [Store EXCEPT !.index.at[term].doc_frequency = df]

\* the IDF the refresh pass computes for a term of doc_frequency df, with
\* N the total_documents of the store
IdfAt(term, df) == calculate_idf(WithFrequency(term, df), term)

DistinctTerms(terms) ==
    SelectSeqBy([i \in DOMAIN terms |->
                    IF \E j \in 1..(i - 1) : terms[j] = terms[i] THEN "" ELSE terms[i]],
                Range(terms))

\* term_frequency(term, doc) * idf_score(term), 0 for a term out of the index
TfIdf(term, d) ==
    get_term_frequency(Store, term, d)
    * (IF Has(index, term) THEN index.at[term].idf_score ELSE 0)

\* C20: for every query term list and every stored document, the TF-IDF
\* score is the sum over the distinct query terms of
\* term_frequency(term, doc) * idf_score(term): a term repeated in the query
\* counts once.
C20_TfIdfIgnoresRepetition ==
    \A terms \in TermLists, d \in Keys(documents) :
        LET distinct == DistinctTerms(terms)
        IN  tfidf_score(Store, terms, d) =
                SumOver([i \in DOMAIN distinct |-> TfIdf(distinct[i], d)], Len(distinct))

\* the value an argument of BM25Scorer(...) stands for: the one supplied, or
\* the default when none is
Supplied(arg, default) == IF IsNone(arg) THEN default ELSE Val(arg)

\* C21: a BM25Scorer constructed with k1 and b scores every term and document
\* with exactly the supplied values, 0 included, and with the defaults 1.5
\* and 0.75 only for a parameter that is not supplied.
C21_ParametersAsSupplied ==
    \A k1 \in ParamArgs, b \in ParamArgs :
        LET scorer == NewBM25Scorer(k1, b)
        IN  \A term \in Terms, d \in Keys(documents) :
                score_term(Store, term, d, scorer.k1, scorer.b)
                    = score_term(Store, term, d, Supplied(k1, BM25_K1), Supplied(b, BM25_B))

(***************************************************************************)
(* Properties of the order of indexing and of the IDF refresh.             *)
(***************************************************************************)
\* the doc_ids of the batch that the store does not hold, each once, in the
\* order of the batch
NewIds(docs) ==
    SelectSeqBy(DistinctTerms([i \in DOMAIN docs |-> docs[i].doc_id]),
                {docs[i].doc_id : i \in DOMAIN docs} \ Keys(documents))

\* after the step, every term of the index has the IDF of the refresh pass
\* for the final total_documents and its final doc_frequency
IdfRefreshed ==
    \A t \in Keys(index') : index'.at[t].idf_score = calculate_idf(Store, t)'

\* C22: a call of add_document leaves the idf_score of every term the index
\* held and gives a new term idf_score 0; a call of add_documents stores the
\* new documents in the order of the batch and returns with every term's
\* idf_score computed from the final total_documents and doc_frequency.
C22_OneRefreshAfterBatch ==
    [][/\ last_call'.op = "add_document" =>
              \A t \in Keys(index') :
                  index'.at[t].idf_score =
                      IF Has(index, t) THEN index.at[t].idf_score ELSE 0
       /\ (last_call'.op = "add_documents_bad" /\ last_call'.arg.bad = 0) =>
              /\ documents'.order = documents.order \o NewIds(last_call'.arg.docs)
              /\ metadata'.document_ids =
                    metadata.document_ids \o NewIds(last_call'.arg.docs)
              /\ IdfRefreshed]_vars

\* C22 witness: add_documents has stored a batch of two documents in the
\* order of the batch, and the term of one of them has a higher idf_score
\* than the term of both.
C22_Witness ==
    /\ last_call.op = "add_documents_bad" /\ last_call.arg.bad = 0
    /\ Len(last_call.arg.docs) = 2
    /\ documents.order = <<last_call.arg.docs[1].doc_id, last_call.arg.docs[2].doc_id>>
    /\ documents.order = <<"d2", "d1">>
    /\ index.at["py"].idf_score > 0
    /\ index.at["go"].idf_score > index.at["py"].idf_score

\* the postings of every term are as they were before the step
PostingsUnchanged ==
    /\ Keys(index') = Keys(index)
    /\ \A t \in Keys(index) : index'.at[t].postings = index.at[t].postings

\* C23: stage_document appends the document to the pending buffer and leaves
\* the store as it was; commit stores the staged documents in staging order,
\* refreshes the IDF of every term, returns their number and empties the
\* buffer; a commit with nothing staged changes no postings, documents or
\* metadata.
C23_StageThenCommit ==
    [][/\ last_call'.op = "stage_document" =>
              /\ UNCHANGED storeVars
              /\ pending_documents' = Append(pending_documents, last_call'.arg)
       /\ last_call'.op = "commit" =>
              /\ pending_documents' = <<>>
              /\ last_call'.ret = Len(pending_documents)
              /\ documents'.order = documents.order \o NewIds(pending_documents)
              /\ metadata'.document_ids =
                    metadata.document_ids \o NewIds(pending_documents)
              /\ IdfRefreshed
              /\ pending_documents = <<>> =>
                    /\ PostingsUnchanged
                    /\ documents' = documents
                    /\ metadata' = metadata]_vars

\* C23 witness: a commit has stored two staged documents, the one staged
\* first before the other, and refreshed the IDF of their terms.
C23_Witness ==
    /\ last_call.op = "commit" /\ last_call.ret = 2
    /\ pending_documents = <<>>
    /\ documents.order = <<"d2", "d1">>
    /\ index.at["go"].idf_score > index.at["py"].idf_score
    /\ index.at["py"].idf_score > 0

(***************************************************************************)
(* Properties of the query cache.                                          *)
(***************************************************************************)
\* every entry the cache held is still in it, unchanged
NothingEvicted ==
    \A k \in DOMAIN query_cache :
        k \in DOMAIN query_cache' /\ query_cache'[k] = query_cache[k]

\* the cache was full and now holds the response of the call, and nothing else
ClearedThenStored ==
    /\ Cardinality(DOMAIN query_cache) = MaxCache
    /\ last_call'.op = "search" /\ ~last_call'.hit
    /\ DOMAIN query_cache' = {cache_key(last_call'.arg.q)}
    /\ query_cache'[cache_key(last_call'.arg.q)] = last_call'.ret

\* C24: after any sequence of searches the query cache holds at most its
\* capacity of entries; a response stored into a full cache finds the cache
\* cleared, so the cache then holds exactly the new entry; an entry leaves the
\* cache only when all of them do.
C24_CacheWithinCapacity ==
    [][/\ Cardinality(DOMAIN query_cache') <= MaxCache
       /\ NothingEvicted \/ ClearedThenStored
       /\ (/\ last_call'.op = "search"
           /\ query_cache' # query_cache
           /\ Cardinality(DOMAIN query_cache) < MaxCache) =>
              Cardinality(DOMAIN query_cache') = Cardinality(DOMAIN query_cache) + 1]_vars

\* C24 witness: a search has stored its response into a full cache, and the
\* cache holds that response alone.
C24_Witness ==
    /\ last_call.op = "search" /\ ~last_call.hit
    /\ last_call.evicted = MaxCache
    /\ DOMAIN query_cache = {cache_key(last_call.arg.q)}
    /\ query_cache[cache_key(last_call.arg.q)] = last_call.ret

(***************************************************************************)
(* Properties of ranking.                                                  *)
(***************************************************************************)
\* the term lists ranked, and the scoring that fails: none, or that of the
\* first file
RankTermLists == {<<"py">>, <<"py", "go">>}
RankFaults == {NoFault, [step |-> "score", doc |-> BulkName(1)]}

\* the candidates of the term list, as the present index retrieves them
Candidates(terms) == retrieve_candidates(Store, terms, NoFault)

\* the list _rank_documents returns for them
Ranked(terms, fault) ==
    rank_documents(Store, SelectSeqBy(BulkOrder, Candidates(terms)), terms, fault)

\* C25: the list _rank_documents returns holds each candidate at most once,
\* holds exactly the candidates whose BM25 score summed over the query terms
\* is at least MIN_RELEVANCE_SCORE and whose scoring did not fail, each with
\* that score, and is ordered by non-increasing score.
C25_RankedByScore ==
    \A terms \in RankTermLists, fault \in RankFaults :
        LET r == Ranked(terms, fault)
        IN  /\ \A i, j \in DOMAIN r :
                  i < j => /\ r[i].doc_id # r[j].doc_id
                           /\ r[i].score >= r[j].score
            /\ {r[i].doc_id : i \in DOMAIN r} =
                  {d \in Candidates(terms) :
                      /\ d # fault.doc
                      /\ bm25_score(Store, terms, d) >= MIN_RELEVANCE_SCORE}
            /\ \A i \in DOMAIN r : r[i].score = bm25_score(Store, terms, r[i].doc_id)

\* C25 witness: the largest batch is indexed and was searched; ranking drops
\* some candidates of a term for their score and keeps others, leaves out
\* one more when its scoring fails, and does not return the candidates in
\* the order it was given them.
C25_Witness ==
    /\ last_call.op = "search" /\ ~last_call.hit
    /\ Cardinality(Keys(documents)) = MaxBulk
    /\ Cardinality(Candidates(<<"py">>)) = MaxBulk
    /\ Len(Ranked(<<"py">>, NoFault)) \in 1..(MaxBulk - 1)
    /\ \E fault \in RankFaults :
          Len(Ranked(<<"py">>, fault)) = Len(Ranked(<<"py">>, NoFault)) - 1
    /\ Ranked(<<"py", "go">>, NoFault) #
          Scored(Store, SelectSeqBy(BulkOrder, Candidates(<<"py", "go">>)),
                 <<"py", "go">>, NoFault)

(***************************************************************************)
(* Properties of the suggestions.                                          *)
(***************************************************************************)
\* the last search built a response without results: no candidate, nothing
\* ranked, or an empty page
BuiltWithoutResults ==
    /\ last_call.op = "search" /\ ~last_call.hit
    /\ LastTerms # <<>>
    /\ last_call.ret.results = <<>>

\* C26: the suggestions of a response without results are at most 3, each a
\* term of the index that starts with the first 3 characters of some query
\* token, and none of them is a token of the query.
C26_SuggestionsAreNewTerms ==
    BuiltWithoutResults =>
        LET suggestions == Val(last_call.ret.suggestions)
        IN  /\ Len(suggestions) <= 3
            /\ \A i \in DOMAIN suggestions :
                  /\ Has(index, suggestions[i])
                  /\ \E j \in DOMAIN LastTerms :
                        StartsWithPrefix3(suggestions[i], LastTerms[j])
                  /\ suggestions[i] \notin Range(LastTerms)

(***************************************************************************)
(* Properties of materialization.                                          *)
(***************************************************************************)
\* the page of the ranked list that the last call was asked for
RequestedPage ==
    Slice(last_call.ranked, (last_call.arg.page - 1) * last_call.arg.per_page,
          last_call.arg.page * last_call.arg.per_page)

\* the entries of that page whose document is in the store
PageInStore == SelectSeq(RequestedPage, LAMBDA x : Has(documents, x.doc_id))

\* C27: the results of a response are the entries of the requested page of
\* the ranked list whose document is in the store, in ranked order, each
\* with the doc_id and the score of the ranking; an entry whose document is
\* missing is dropped and the call does not fail, so the results are at most
\* per_page and each result's doc_id is in the document store.
C27_MissingDocumentDropped ==
    last_call.op = "materialize" =>
        LET results == last_call.ret.results
        IN  /\ ~last_call.raised
            /\ Len(results) = Len(PageInStore)
            /\ \A i \in DOMAIN results :
                  /\ results[i].doc_id = PageInStore[i].doc_id
                  /\ results[i].score = PageInStore[i].score
                  /\ Has(documents, results[i].doc_id)
            /\ Len(results) <= last_call.arg.per_page
            /\ last_call.ret.total_results = Len(last_call.ranked)

\* C27 witness: a page of two ranked documents was materialized after one of
\* them had left the store, and the response holds the other one alone.
C27_Witness ==
    /\ last_call.op = "materialize"
    /\ Len(RequestedPage) = 2
    /\ Len(last_call.ret.results) = 1
    /\ last_call.ret.total_results = 2

(***************************************************************************)
(* Properties of the store after sequences of additions and clears.        *)
(***************************************************************************)

\* C28: after any sequence of add_document, add_documents, stage_document,
\* commit and clear, additions of a stored doc_id included,
\* metadata.total_documents is the number of stored documents and
\* metadata.document_ids lists the stored doc_ids, each once, in the order
\* of their insertion.
C28_MetadataListsDocuments ==
    /\ metadata.total_documents = Cardinality(Keys(documents))
    /\ metadata.document_ids = documents.order
    /\ Range(documents.order) = Keys(documents)
    /\ \A i, j \in DOMAIN metadata.document_ids :
          i # j => metadata.document_ids[i] # metadata.document_ids[j]

\* C28 witness: two documents are stored, the second file first, and the
\* last call added a doc_id that was stored already.
C28_Witness ==
    /\ last_call.op = "add_document" /\ last_call.ret
    /\ metadata.document_ids = <<"d2", "d1">>
    /\ metadata.total_documents = 2

\* the offsets at which the term occurs in the tokens of the stored document
Offsets(term, d) ==
    {k - 1 : k \in {i \in DOMAIN documents.at[d].tokens : documents.at[d].tokens[i] = term}}

\* the frequencies the index records for the document, summed over its terms
FrequenciesOf(d) ==
    SumOver([i \in DOMAIN index.order |-> RecordedFrequency(index.order[i], d)],
            Len(index.order))

\* C29: after any sequence of add_document, add_documents, stage_document,
\* commit and clear, every posting of a term for a document has a frequency
\* equal to the number of its positions, and its positions are, in strictly
\* increasing order, the offsets in [0, word_count) at which the term occurs
\* in the document's tokens; the frequencies of a stored document sum to its
\* word_count, and total_tokens is the sum of the word counts.
C29_PostingsMatchTokens ==
    /\ \A t \in Keys(index) :
          \A d \in Keys(index.at[t].postings) :
              LET p == index.at[t].postings.at[d]
              IN  /\ Has(documents, d)
                  /\ p.frequency = Len(p.positions)
                  /\ \A i, j \in DOMAIN p.positions :
                        i < j => p.positions[i] < p.positions[j]
                  /\ Range(p.positions) = Offsets(t, d)
                  /\ \A i \in DOMAIN p.positions :
                        p.positions[i] \in 0..(documents.at[d].word_count - 1)
    /\ \A d \in Keys(documents) : FrequenciesOf(d) = documents.at[d].word_count
    /\ metadata.total_tokens = TokensOf(documents.order, Len(documents.order))

\* C29 witness: a commit has left a term at the offsets 0 and 1 of one
\* document, behind a stop word that was removed, and another term at
\* offset 1 of a second document.
C29_Witness ==
    /\ last_call.op = "commit"
    /\ Has(index, "py") /\ Has(index, "go")
    /\ Has(index.at["py"].postings, "d1") /\ Has(index.at["go"].postings, "d2")
    /\ index.at["py"].postings.at["d1"] = [frequency |-> 2, positions |-> <<0, 1>>]
    /\ index.at["go"].postings.at["d2"] = [frequency |-> 1, positions |-> <<1>>]
    /\ documents.at["d1"].content = <<"Py", "the", "py">>
    /\ metadata.total_tokens = 4

(***************************************************************************)
(* Properties of the indexing requests of the service.                     *)
(***************************************************************************)
\* the step is the save that ends an indexing run, while no other run is
\* under way
RunCompletes ==
    \E t \in Threads :
        /\ pc[t] = "save" /\ pc'[t] = "idle"
        /\ \A u \in Threads \ {t} : pc[u] = "idle"

\* C30: when an indexing request has completed, with the save after its
\* add_document calls and no other request running, every term of the served index and of the persisted
\* index has the idf_score of the refresh pass for the current
\* total_documents and its doc_frequency.
C30_IdfFreshAfterIndexing ==
    [][RunCompletes =>
          /\ IdfRefreshed
          /\ \A t \in Keys(saved'.index) :
                saved'.index.at[t].idf_score = calculate_idf(saved', t)]_vars

====
